---- MODULE Spec2Model ----
(***************************************************************************)
(* VoteCounter of dynamic_honey_badger/votes.rs: the buffer of pending     *)
(* votes and the tally of committed votes for validator set changes.       *)
(***************************************************************************)
EXTENDS Integers, Sequences, FiniteSets, TLC

VARIABLES era, pending, committed, call, result, faulty, signed, peer

vars == <<era, pending, committed, call, result, faulty, signed, peer>>

(* ------------------------------------------------------------------ *)
(* The network of the tests: node_num validators 0 .. node_num - 1,    *)
(* counter number 0 is the one under study.                            *)
(* ------------------------------------------------------------------ *)
node_num == 4

test_era == 5

our_uid == 0

\* Bounds of the model.
MaxNum == 1

MaxChange == 1

MaxBatch == 2

Validators == 0 .. (node_num - 1)

\* An id that is not a validator of this era: netinfo has no public key for it.
Outsider == node_num

NodeUids == Validators \cup {Outsider}

\* NetworkInfo::generate_map(0 .. node_num)[id]: what the counter of node id reads
\* of the network: its own id and secret key, the validators' public keys (the
\* key pair of node k is named k) and the number of tolerated faulty nodes.
NetworkInfo(id) ==
    [our_uid |-> id,
     secret_key |-> id,
     public_keys |-> [k \in Validators |-> k],
     num_faulty |-> (node_num - 1) \div 3]

\* NetworkInfo::num_faulty
num_faulty(netinfo) == netinfo.num_faulty

\* NetworkInfo::public_key: Some(key) or None, as a set of at most one key.
public_key(netinfo, id) ==
    IF id \in DOMAIN netinfo.public_keys THEN {netinfo.public_keys[id]} ELSE {}

\* Change::Remove(j)
Changes == {<<"Remove", j>> : j \in 0 .. MaxChange}

Eras == {test_era, test_era + 1}

Nums == 0 .. MaxNum

\* struct Vote
Vote == [change : Changes, era : Eras, num : Nums]

\* bincode::serialize(&vote): the fields in declaration order.
serialize(vote) == <<vote.change, vote.era, vote.num>>

\* SecretKey::sign: a signature is bound to the key that made it and to the bytes.
sign(key, bytes) == [signer |-> key, msg |-> bytes]

\* PublicKey::verify
verify(pk, sig, bytes) == sig.signer = pk /\ sig.msg = bytes

Signatures == {sign(k, serialize(m)) : k \in NodeUids, m \in Vote}

None == <<"None">>

Some(x) == <<"Some", x>>

\* FaultLog::new
FaultLog_new == <<>>

\* FaultLog::init
FaultLog_init(node, kind) == <<[node |-> node, kind |-> kind]>>

\* BTreeMap::insert
insert(map, k, v) == [x \in DOMAIN map \cup {k} |-> IF x = k THEN v ELSE map[x]]

\* The keys of a BTreeMap in ascending order.
RECURSIVE keys_from(_, _)
keys_from(map, lo) ==
    IF \A k \in DOMAIN map : k < lo THEN <<>>
    ELSE LET k == CHOOSE x \in DOMAIN map : x >= lo /\ \A y \in DOMAIN map : y >= lo => x <= y
         IN <<k>> \o keys_from(map, k + 1)

keys(map) == keys_from(map, 0)

\* BTreeMap::values
values(map) == [i \in 1 .. Len(keys(map)) |-> map[keys(map)[i]]]

\* VoteCounter::new
new(netinfo, e) == [netinfo |-> netinfo, era |-> e, pending |-> <<>>, committed |-> <<>>]

\* validate with a voter that has no public key taken as valid.
validate_unknown_voter(self, signed_vote) ==
    LET ser_vote == serialize(signed_vote.vote)
        pk_opt == public_key(self.netinfo, signed_vote.voter)
    IN pk_opt = {} \/ \E pk \in pk_opt : verify(pk, signed_vote.sig, ser_vote)

\* validate with the signature verified against any known key, not the voter's.
validate_any_key(self, signed_vote) ==
    LET ser_vote == serialize(signed_vote.vote)
    IN /\ public_key(self.netinfo, signed_vote.voter) # {}
       /\ \E k \in DOMAIN self.netinfo.public_keys :
              verify(self.netinfo.public_keys[k], signed_vote.sig, ser_vote)

\* VoteCounter::validate
validate(self, signed_vote) ==
    LET ser_vote == serialize(signed_vote.vote)
        pk_opt == public_key(self.netinfo, signed_vote.voter)
    IN \E pk \in pk_opt : verify(pk, signed_vote.sig, ser_vote)

\* sign_vote_for with the num read from the committed votes.
sign_vote_for_reads_committed(self, change) ==
    LET voter == self.netinfo.our_uid
        vote == [change |-> change,
                 era |-> self.era,
                 num |-> IF voter \in DOMAIN self.committed
                         THEN self.committed[voter].num + 1 ELSE 0]
        signed_vote == [vote |-> vote, voter |-> voter,
                        sig |-> sign(self.netinfo.secret_key, serialize(vote))]
    IN [self |-> [self EXCEPT !.pending = insert(self.pending, voter, signed_vote)],
        ret |-> signed_vote]

\* sign_vote_for signing the num of the pending vote again.
sign_vote_for_same_num(self, change) ==
    LET voter == self.netinfo.our_uid
        vote == [change |-> change,
                 era |-> self.era,
                 num |-> IF voter \in DOMAIN self.pending
                         THEN self.pending[voter].vote.num ELSE 0]
        signed_vote == [vote |-> vote, voter |-> voter,
                        sig |-> sign(self.netinfo.secret_key, serialize(vote))]
    IN [self |-> [self EXCEPT !.pending = insert(self.pending, voter, signed_vote)],
        ret |-> signed_vote]

\* VoteCounter::sign_vote_for
sign_vote_for(self, change) ==
    LET voter == self.netinfo.our_uid
        vote == [change |-> change,
                 era |-> self.era,
                 num |-> IF voter \in DOMAIN self.pending
                         THEN self.pending[voter].vote.num + 1 ELSE 0]
        signed_vote == [vote |-> vote, voter |-> voter,
                        sig |-> sign(self.netinfo.secret_key, serialize(vote))]
    IN [self |-> [self EXCEPT !.pending = insert(self.pending, voter, signed_vote)],
        ret |-> signed_vote]

\* add_pending_vote with the fault attributed to the claimed voter.
add_pending_vote_blames_voter(self, sender_id, signed_vote) ==
    IF signed_vote.vote.era # self.era
       \/ (signed_vote.voter \in DOMAIN self.pending
           /\ self.pending[signed_vote.voter].vote.num >= signed_vote.vote.num)
    THEN [self |-> self, ret |-> FaultLog_new]
    ELSE IF ~validate(self, signed_vote)
    THEN [self |-> self, ret |-> FaultLog_init(signed_vote.voter, "InvalidVoteSignature")]
    ELSE [self |-> [self EXCEPT !.pending =
                        insert(self.pending, signed_vote.voter, signed_vote)],
          ret |-> FaultLog_new]

\* add_pending_vote with the signature validated before the obsolescence test.
add_pending_vote_validates_first(self, sender_id, signed_vote) ==
    IF ~validate(self, signed_vote)
    THEN [self |-> self, ret |-> FaultLog_init(sender_id, "InvalidVoteSignature")]
    ELSE IF signed_vote.vote.era # self.era
            \/ (signed_vote.voter \in DOMAIN self.pending
                /\ self.pending[signed_vote.voter].vote.num >= signed_vote.vote.num)
    THEN [self |-> self, ret |-> FaultLog_new]
    ELSE [self |-> [self EXCEPT !.pending =
                        insert(self.pending, signed_vote.voter, signed_vote)],
          ret |-> FaultLog_new]

\* add_pending_vote without the test of the stored vote's num.
add_pending_vote_no_stale_test(self, sender_id, signed_vote) ==
    IF signed_vote.vote.era # self.era
    THEN [self |-> self, ret |-> FaultLog_new]
    ELSE IF ~validate(self, signed_vote)
    THEN [self |-> self, ret |-> FaultLog_init(sender_id, "InvalidVoteSignature")]
    ELSE [self |-> [self EXCEPT !.pending =
                        insert(self.pending, signed_vote.voter, signed_vote)],
          ret |-> FaultLog_new]

\* add_pending_vote keeping the first vote stored for a voter.
add_pending_vote_keeps_first(self, sender_id, signed_vote) ==
    IF signed_vote.vote.era # self.era \/ signed_vote.voter \in DOMAIN self.pending
    THEN [self |-> self, ret |-> FaultLog_new]
    ELSE IF ~validate(self, signed_vote)
    THEN [self |-> self, ret |-> FaultLog_init(sender_id, "InvalidVoteSignature")]
    ELSE [self |-> [self EXCEPT !.pending =
                        insert(self.pending, signed_vote.voter, signed_vote)],
          ret |-> FaultLog_new]

\* VoteCounter::add_pending_vote
add_pending_vote(self, sender_id, signed_vote) ==
    IF signed_vote.vote.era # self.era
       \/ (signed_vote.voter \in DOMAIN self.pending
           /\ self.pending[signed_vote.voter].vote.num >= signed_vote.vote.num)
    THEN [self |-> self, ret |-> FaultLog_new]
    ELSE IF ~validate(self, signed_vote)
    THEN [self |-> self, ret |-> FaultLog_init(sender_id, "InvalidVoteSignature")]
    ELSE [self |-> [self EXCEPT !.pending =
                        insert(self.pending, signed_vote.voter, signed_vote)],
          ret |-> FaultLog_new]

\* pending_votes keeping a pending vote as old as its voter's committed vote.
pending_votes_keeps_equal(self) ==
    SelectSeq(values(self.pending),
              LAMBDA signed_vote :
                  signed_vote.voter \in DOMAIN self.committed
                      => self.committed[signed_vote.voter].num <= signed_vote.vote.num)

\* pending_votes without the filter on the committed votes.
pending_votes_unfiltered(self) == values(self.pending)

\* VoteCounter::pending_votes
pending_votes(self) ==
    SelectSeq(values(self.pending),
              LAMBDA signed_vote :
                  signed_vote.voter \in DOMAIN self.committed
                      => self.committed[signed_vote.voter].num < signed_vote.vote.num)

\* add_committed_vote without the test of the vote's era.
add_committed_vote_any_era(self, proposer_id, signed_vote) ==
    IF signed_vote.voter \in DOMAIN self.committed
       /\ self.committed[signed_vote.voter].num >= signed_vote.vote.num
    THEN [self |-> self, ret |-> FaultLog_new]
    ELSE IF ~validate(self, signed_vote)
    THEN [self |-> self, ret |-> FaultLog_init(proposer_id, "InvalidCommittedVote")]
    ELSE [self |-> [self EXCEPT !.committed =
                        insert(self.committed, signed_vote.voter, signed_vote.vote)],
          ret |-> FaultLog_new]

\* add_committed_vote with era and signature tested before the obsolescence test.
add_committed_vote_validates_first(self, proposer_id, signed_vote) ==
    IF signed_vote.vote.era # self.era \/ ~validate(self, signed_vote)
    THEN [self |-> self, ret |-> FaultLog_init(proposer_id, "InvalidCommittedVote")]
    ELSE IF signed_vote.voter \in DOMAIN self.committed
            /\ self.committed[signed_vote.voter].num >= signed_vote.vote.num
    THEN [self |-> self, ret |-> FaultLog_new]
    ELSE [self |-> [self EXCEPT !.committed =
                        insert(self.committed, signed_vote.voter, signed_vote.vote)],
          ret |-> FaultLog_new]

\* add_committed_vote with the obsolete vote reported like an invalid one.
add_committed_vote_stale_fault(self, proposer_id, signed_vote) ==
    IF \/ (signed_vote.voter \in DOMAIN self.committed
           /\ self.committed[signed_vote.voter].num >= signed_vote.vote.num)
       \/ signed_vote.vote.era # self.era
       \/ ~validate(self, signed_vote)
    THEN [self |-> self, ret |-> FaultLog_init(proposer_id, "InvalidCommittedVote")]
    ELSE [self |-> [self EXCEPT !.committed =
                        insert(self.committed, signed_vote.voter, signed_vote.vote)],
          ret |-> FaultLog_new]

\* add_committed_vote without the obsolescence test.
add_committed_vote_no_stale_test(self, proposer_id, signed_vote) ==
    IF signed_vote.vote.era # self.era \/ ~validate(self, signed_vote)
    THEN [self |-> self, ret |-> FaultLog_init(proposer_id, "InvalidCommittedVote")]
    ELSE [self |-> [self EXCEPT !.committed =
                        insert(self.committed, signed_vote.voter, signed_vote.vote)],
          ret |-> FaultLog_new]

\* add_committed_vote with the obsolescence test reading the pending votes.
add_committed_vote_reads_pending(self, proposer_id, signed_vote) ==
    IF signed_vote.voter \in DOMAIN self.pending
       /\ self.pending[signed_vote.voter].vote.num >= signed_vote.vote.num
    THEN [self |-> self, ret |-> FaultLog_new]
    ELSE IF signed_vote.vote.era # self.era \/ ~validate(self, signed_vote)
    THEN [self |-> self, ret |-> FaultLog_init(proposer_id, "InvalidCommittedVote")]
    ELSE [self |-> [self EXCEPT !.committed =
                        insert(self.committed, signed_vote.voter, signed_vote.vote)],
          ret |-> FaultLog_new]

\* add_committed_vote with a vote of the same num replacing the stored one.
add_committed_vote_same_num(self, proposer_id, signed_vote) ==
    IF signed_vote.voter \in DOMAIN self.committed
       /\ self.committed[signed_vote.voter].num > signed_vote.vote.num
    THEN [self |-> self, ret |-> FaultLog_new]
    ELSE IF signed_vote.vote.era # self.era \/ ~validate(self, signed_vote)
    THEN [self |-> self, ret |-> FaultLog_init(proposer_id, "InvalidCommittedVote")]
    ELSE [self |-> [self EXCEPT !.committed =
                        insert(self.committed, signed_vote.voter, signed_vote.vote)],
          ret |-> FaultLog_new]

\* add_committed_vote removing the voter's pending vote when it stores the vote.
add_committed_vote_clears_pending(self, proposer_id, signed_vote) ==
    IF signed_vote.voter \in DOMAIN self.committed
       /\ self.committed[signed_vote.voter].num >= signed_vote.vote.num
    THEN [self |-> self, ret |-> FaultLog_new]
    ELSE IF signed_vote.vote.era # self.era \/ ~validate(self, signed_vote)
    THEN [self |-> self, ret |-> FaultLog_init(proposer_id, "InvalidCommittedVote")]
    ELSE [self |-> [self EXCEPT
                        !.committed = insert(self.committed, signed_vote.voter,
                                             signed_vote.vote),
                        !.pending = [v \in DOMAIN self.pending \ {signed_vote.voter}
                                         |-> self.pending[v]]],
          ret |-> FaultLog_new]

\* VoteCounter::add_committed_vote
add_committed_vote(self, proposer_id, signed_vote) ==
    IF signed_vote.voter \in DOMAIN self.committed
       /\ self.committed[signed_vote.voter].num >= signed_vote.vote.num
    THEN [self |-> self, ret |-> FaultLog_new]
    ELSE IF signed_vote.vote.era # self.era \/ ~validate(self, signed_vote)
    THEN [self |-> self, ret |-> FaultLog_init(proposer_id, "InvalidCommittedVote")]
    ELSE [self |-> [self EXCEPT !.committed =
                        insert(self.committed, signed_vote.voter, signed_vote.vote)],
          ret |-> FaultLog_new]

\* add_committed_votes returning at the first vote that produces a fault.
RECURSIVE add_committed_votes_stops_at_fault(_, _, _)
add_committed_votes_stops_at_fault(self, proposer_id, signed_votes) ==
    IF signed_votes = <<>> THEN [self |-> self, ret |-> FaultLog_new]
    ELSE LET first == add_committed_vote(self, proposer_id, Head(signed_votes))
             rest == add_committed_votes_stops_at_fault(first.self, proposer_id,
                                                        Tail(signed_votes))
         IN IF first.ret # FaultLog_new THEN first
            ELSE [self |-> rest.self, ret |-> first.ret \o rest.ret]

\* VoteCounter::add_committed_votes
RECURSIVE add_committed_votes(_, _, _)
add_committed_votes(self, proposer_id, signed_votes) ==
    IF signed_votes = <<>> THEN [self |-> self, ret |-> FaultLog_new]
    ELSE LET first == add_committed_vote(self, proposer_id, Head(signed_votes))
             rest == add_committed_votes(first.self, proposer_id, Tail(signed_votes))
         IN [self |-> rest.self, ret |-> first.ret \o rest.ret]

\* The loop of compute_winner returning at f votes, not at more than f.
RECURSIVE winner_loop_at_f(_, _, _, _)
winner_loop_at_f(self, vals, i, vote_counts) ==
    IF i > Len(vals) THEN None
    ELSE LET change == vals[i].change
             entry == (IF change \in DOMAIN vote_counts THEN vote_counts[change] ELSE 0) + 1
         IN IF entry >= num_faulty(self.netinfo) THEN Some(change)
            ELSE winner_loop_at_f(self, vals, i + 1, insert(vote_counts, change, entry))

\* The loop of VoteCounter::compute_winner over committed.values()[i ..],
\* vote_counts being the counts of the votes before i.
RECURSIVE winner_loop(_, _, _, _)
winner_loop(self, vals, i, vote_counts) ==
    IF i > Len(vals) THEN None
    ELSE LET change == vals[i].change
             entry == (IF change \in DOMAIN vote_counts THEN vote_counts[change] ELSE 0) + 1
         IN IF entry > num_faulty(self.netinfo) THEN Some(change)
            ELSE winner_loop(self, vals, i + 1, insert(vote_counts, change, entry))

\* compute_winner scanning the committed votes in descending voter order.
compute_winner_descending(self) ==
    LET vals == values(self.committed)
    IN winner_loop(self, [i \in 1 .. Len(vals) |-> vals[Len(vals) + 1 - i]], 1, <<>>)

\* VoteCounter::compute_winner
compute_winner(self) == winner_loop(self, values(self.committed), 1, <<>>)

(* ------------------------------------------------------------------ *)
(* The counter under study and its callers.                            *)
(* ------------------------------------------------------------------ *)
\* The fields of the VoteCounter of node our_uid.
Self ==
    [netinfo |-> NetworkInfo(our_uid), era |-> era, pending |-> pending,
     committed |-> committed]

NoCall == [op |-> "none"]

NoResult == <<"NoResult">>

\* A SignedVote as a test or a peer can build it: a vote, a claimed voter and a
\* signature in which at most one of the key and the signed bytes is wrong.
SignedVoteOf(ids) ==
    {sv \in [vote : Vote, voter : ids, sig : Signatures] :
        sv.sig.signer = sv.voter \/ sv.sig.msg = serialize(sv.vote)}

\* The voters whose votes are relayed to the counter, and the relaying nodes.
Relayed == {our_uid, Outsider}

Senders == {our_uid, 1}

SignedVotes == SignedVoteOf(Relayed)

\* The votes of a committed batch: of the current era, signed by the voter or, as
\* in the tests, carrying the signature of the next validator.
BatchVotes ==
    {sv \in SignedVoteOf(Validators \cap Relayed) :
        /\ sv.vote.era = test_era
        /\ sv.sig.msg = serialize(sv.vote)
        /\ sv.sig.signer \in {sv.voter, (sv.voter + 1) % node_num}}

RECURSIVE SeqsOf(_, _)
SeqsOf(S, n) ==
    IF n = 0 THEN {<<>>}
    ELSE LET shorter == SeqsOf(S, n - 1)
         IN shorter \cup {Append(q, x) : q \in {t \in shorter : Len(t) = n - 1}, x \in S}

Batches == SeqsOf(BatchVotes, MaxBatch)

Init ==
    /\ era = test_era
    /\ pending = new(NetworkInfo(our_uid), test_era).pending
    /\ committed = new(NetworkInfo(our_uid), test_era).committed
    /\ call = NoCall
    /\ result = NoResult
    /\ faulty = {}
    /\ signed = {}
    /\ peer = new(NetworkInfo(our_uid), test_era)

\* The counter's fields after a call that returned r.
Becomes(r) ==
    /\ era' = r.self.era
    /\ pending' = r.self.pending
    /\ committed' = r.self.committed

Idle == call = NoCall

SignVoteFor ==
    /\ Idle
    /\ our_uid \in DOMAIN pending => pending[our_uid].vote.num < MaxNum
    /\ \E change \in Changes :
          LET r == sign_vote_for(Self, change)
          IN /\ Becomes(r)
             /\ call' = [op |-> "sign_vote_for", change |-> change]
             /\ result' = r.ret
    /\ UNCHANGED <<faulty, signed, peer>>

AddPendingVote ==
    /\ Idle
    /\ \E sender_id \in Senders, signed_vote \in SignedVotes :
          LET r == add_pending_vote(Self, sender_id, signed_vote)
          IN /\ Becomes(r)
             /\ call' = [op |-> "add_pending_vote", sender_id |-> sender_id,
                         signed_vote |-> signed_vote]
             /\ result' = r.ret
    /\ UNCHANGED <<faulty, signed, peer>>

AddCommittedVote ==
    /\ Idle
    /\ \E proposer_id \in Senders, signed_vote \in SignedVotes :
          LET r == add_committed_vote(Self, proposer_id, signed_vote)
          IN /\ Becomes(r)
             /\ call' = [op |-> "add_committed_vote", proposer_id |-> proposer_id,
                         signed_vote |-> signed_vote]
             /\ result' = r.ret
    /\ UNCHANGED <<faulty, signed, peer>>

AddCommittedVotes ==
    /\ Idle
    /\ \E proposer_id \in Senders, signed_votes \in Batches :
          LET r == add_committed_votes(Self, proposer_id, signed_votes)
          IN /\ Becomes(r)
             /\ call' = [op |-> "add_committed_votes", proposer_id |-> proposer_id,
                         signed_votes |-> signed_votes]
             /\ result' = r.ret
    /\ UNCHANGED <<faulty, signed, peer>>

PendingVotes ==
    /\ Idle
    /\ call' = [op |-> "pending_votes"]
    /\ result' = pending_votes(Self)
    /\ UNCHANGED <<era, pending, committed, faulty, signed, peer>>

ComputeWinner ==
    /\ Idle
    /\ call' = [op |-> "compute_winner"]
    /\ result' = compute_winner(Self)
    /\ UNCHANGED <<era, pending, committed, faulty, signed, peer>>

\* The caller takes the returned value; the counter is ready for the next call.
Return ==
    /\ ~Idle
    /\ call' = NoCall
    /\ result' = NoResult
    /\ UNCHANGED <<era, pending, committed, faulty, signed, peer>>

Next ==
    \/ SignVoteFor
    \/ AddPendingVote
    \/ AddCommittedVote
    \/ AddCommittedVotes
    \/ PendingVotes
    \/ ComputeWinner
    \/ Return

Spec == Init /\ [][Next]_vars

(* ------------------------------------------------------------------ *)
(* The tally: the votes of all validators arrive in committed batches. *)
(* ------------------------------------------------------------------ *)
\* The votes the nodes signed for the counter's era, as signed or, as in
\* the tests, with the signature of the next validator in place of the voter's.
TallyVotes ==
    {sv \in SignedVoteOf(NodeUids) :
        /\ sv.vote.era = test_era
        /\ sv.sig.msg = serialize(sv.vote)
        /\ sv.sig.signer \in {sv.voter, (sv.voter + 1) % node_num}}

TallyCommittedVote ==
    /\ Idle
    /\ \E signed_vote \in TallyVotes :
          LET r == add_committed_vote(Self, 1, signed_vote)
          IN /\ Becomes(r)
             /\ call' = [op |-> "add_committed_vote", proposer_id |-> 1,
                         signed_vote |-> signed_vote]
             /\ result' = r.ret
    /\ UNCHANGED <<faulty, signed, peer>>

NextTally ==
    \/ TallyCommittedVote
    \/ ComputeWinner
    \/ Return

SpecTally == Init /\ [][NextTally]_vars

(* ------------------------------------------------------------------ *)
(* The counter of an honest node among faulty validators: at most      *)
(* num_faulty validators are faulty, and a signature of an honest      *)
(* validator exists only on the votes that validator has signed.       *)
(* ------------------------------------------------------------------ *)
Honest == Validators \ faulty

\* The vote node k signs, as sign_vote_for of k's counter builds it.
SignedBy(k, vote) == [vote |-> vote, voter |-> k, sig |-> sign(k, serialize(vote))]

\* In other eras the honest validators may have signed any vote; signed holds
\* the votes they have signed in the counter's era.
ForeignVotes(ids) == {SignedBy(k, vote) : k \in ids, vote \in {m \in Vote : m.era # test_era}}

\* The current vote of honest validator h in its own counter, if it has signed one.
OwnPending(h) ==
    LET own == {sv \in signed : sv.voter = h /\ sv.vote.era = era}
    IN IF own = {} THEN <<>>
       ELSE LET last == CHOOSE sv \in own : \A other \in own : other.vote.num <= sv.vote.num
            IN insert(<<>>, h, last)

\* The signed votes the faulty validators can hand to the counter: any vote under
\* any claimed voter, with a signature a key of theirs makes or with a signature
\* an honest validator has made.
\* As in SignedVoteOf, at most one of the key and the signed bytes is wrong.
ByzSignatures ==
    {sg \in Signatures : sg.signer \in faulty}
        \cup {sv.sig : sv \in ForeignVotes(Honest) \cup signed}

ByzVotes ==
    UNION {{[vote |-> m, voter |-> sg.signer, sig |-> sg] : m \in Vote}
           \cup {[vote |-> m, voter |-> k, sig |-> sg] :
                    m \in {x \in Vote : serialize(x) = sg.msg}, k \in NodeUids} :
           sg \in ByzSignatures}

\* The votes of a batch: votes of the era, signed by their voter, a validator,
\* or signed by a faulty validator in the name of the local node.
ByzBatchVotes ==
    {sv \in ByzVotes : /\ sv.voter \in Validators /\ sv.vote.era = era
                       /\ sv.sig.msg = serialize(sv.vote)
                       /\ \/ sv.sig.signer = sv.voter
                          \/ sv.sig.signer \in faulty /\ sv.voter = our_uid}

InitByz ==
    /\ era = test_era
    /\ pending = new(NetworkInfo(our_uid), test_era).pending
    /\ committed = new(NetworkInfo(our_uid), test_era).committed
    /\ call = NoCall
    /\ result = NoResult
    /\ faulty \in {F \in SUBSET (Validators \ {our_uid}) :
                      Cardinality(F) <= num_faulty(NetworkInfo(our_uid))}
    /\ signed = {}
    /\ peer = new(NetworkInfo(our_uid), test_era)

\* An honest validator other than the local node signs its vote of the era.
ByzHonestVote ==
    /\ \E h \in Honest \ {our_uid}, change \in Changes :
          /\ OwnPending(h) = <<>>
          /\ LET theirs == [new(NetworkInfo(h), era) EXCEPT !.pending = OwnPending(h)]
                 r == sign_vote_for(theirs, change)
             IN signed' = signed \cup {r.ret}
    /\ UNCHANGED <<era, pending, committed, call, result, faulty, peer>>

ByzSignVoteFor ==
    /\ our_uid \in DOMAIN pending => pending[our_uid].vote.num < MaxNum
    /\ \E change \in Changes :
          LET r == sign_vote_for(Self, change)
          IN /\ Becomes(r)
             /\ signed' = signed \cup {r.ret}
    /\ UNCHANGED <<call, result, faulty, peer>>

ByzAddPendingVote ==
    /\ \E signed_vote \in {sv \in ByzVotes : sv.voter \in Relayed} :
          Becomes(add_pending_vote(Self, 1, signed_vote))
    /\ UNCHANGED <<call, result, faulty, signed, peer>>

ByzAddCommittedVote ==
    /\ \E signed_vote \in ByzVotes :
          Becomes(add_committed_vote(Self, 1, signed_vote))
    /\ UNCHANGED <<call, result, faulty, signed, peer>>

ByzAddCommittedVotes ==
    /\ \E signed_votes \in SeqsOf(ByzBatchVotes, MaxBatch) :
          Becomes(add_committed_votes(Self, 1, signed_votes))
    /\ UNCHANGED <<call, result, faulty, signed, peer>>

NextByz ==
    \/ ByzHonestVote
    \/ ByzSignVoteFor
    \/ ByzAddPendingVote
    \/ ByzAddCommittedVote
    \/ ByzAddCommittedVotes

SpecByz == InitByz /\ [][NextByz]_vars

(* ------------------------------------------------------------------ *)
(* Two counters of one era: counters[0] and counters[1] of the tests   *)
(* are given the same committed votes, each with its own pending votes.*)
(* ------------------------------------------------------------------ *)
peer_uid == 1

\* The committed votes both counters are given: votes of two validators and of
\* the outsider, of either era, signed by the voter or by the next validator.
TwoVotes ==
    {sv \in SignedVoteOf({our_uid, peer_uid, Outsider}) :
        /\ sv.sig.msg = serialize(sv.vote)
        /\ sv.sig.signer \in {sv.voter, (sv.voter + 1) % node_num}}

TwoBatches ==
    SeqsOf({sv \in TwoVotes : sv.vote.era = test_era /\ sv.sig.signer = sv.voter
                              /\ sv.voter \in Validators}, MaxBatch)

\* The pending votes either counter is given.
TwoPendingVotes == {sv \in TwoVotes : sv.voter \in Relayed}

InitTwo ==
    /\ era = test_era
    /\ pending = new(NetworkInfo(our_uid), test_era).pending
    /\ committed = new(NetworkInfo(our_uid), test_era).committed
    /\ call = NoCall
    /\ result = NoResult
    /\ faulty = {}
    /\ signed = {}
    /\ peer = new(NetworkInfo(peer_uid), test_era)

\* Both counters are given the same committed vote, whoever proposed it to each.
TwoAddCommittedVote ==
    /\ \E proposer_id \in Senders, peer_proposer_id \in Senders, signed_vote \in TwoVotes :
          /\ Becomes(add_committed_vote(Self, proposer_id, signed_vote))
          /\ peer' = add_committed_vote(peer, peer_proposer_id, signed_vote).self
    /\ UNCHANGED <<call, result, faulty, signed>>

TwoAddCommittedVotes ==
    /\ \E proposer_id \in Senders, peer_proposer_id \in Senders, signed_votes \in TwoBatches :
          /\ Becomes(add_committed_votes(Self, proposer_id, signed_votes))
          /\ peer' = add_committed_votes(peer, peer_proposer_id, signed_votes).self
    /\ UNCHANGED <<call, result, faulty, signed>>

TwoAddPendingVote ==
    /\ \E sender_id \in Senders, signed_vote \in TwoPendingVotes :
          Becomes(add_pending_vote(Self, sender_id, signed_vote))
    /\ UNCHANGED <<call, result, faulty, signed, peer>>

TwoPeerAddPendingVote ==
    /\ \E sender_id \in Senders, signed_vote \in TwoPendingVotes :
          peer' = add_pending_vote(peer, sender_id, signed_vote).self
    /\ UNCHANGED <<era, pending, committed, call, result, faulty, signed>>

TwoSignVoteFor ==
    /\ our_uid \in DOMAIN pending => pending[our_uid].vote.num < MaxNum
    /\ \E change \in Changes : Becomes(sign_vote_for(Self, change))
    /\ UNCHANGED <<call, result, faulty, signed, peer>>

TwoPeerSignVoteFor ==
    /\ peer_uid \in DOMAIN peer.pending => peer.pending[peer_uid].vote.num < MaxNum
    /\ \E change \in Changes : peer' = sign_vote_for(peer, change).self
    /\ UNCHANGED <<era, pending, committed, call, result, faulty, signed>>

NextTwo ==
    \/ TwoAddCommittedVote
    \/ TwoAddCommittedVotes
    \/ TwoAddPendingVote
    \/ TwoPeerAddPendingVote
    \/ TwoSignVoteFor
    \/ TwoPeerSignVoteFor

SpecTwo == InitTwo /\ [][NextTwo]_vars

(* ------------------------------------------------------------------ *)
(* The pending votes of several voters, as in tests::test_pending_votes:*)
(* validators 0, 1 and 2 vote, a vote in the name of validator 3 bears  *)
(* the signature of validator 2.                                       *)
(* ------------------------------------------------------------------ *)
PendVoters == {0, 1, 2}

PendVotes ==
    {sv \in SignedVoteOf(Validators) :
        /\ sv.sig.msg = serialize(sv.vote)
        /\ \/ sv.voter \in PendVoters /\ sv.sig.signer = sv.voter
           \/ sv.voter \notin PendVoters /\ sv.sig.signer = 2}

\* The votes of a committed batch: current votes of validators 1 and 2.
PendBatches ==
    SeqsOf({sv \in PendVotes : sv.voter \in {1, 2} /\ sv.vote.era = test_era}, MaxBatch)

PendSignVoteFor ==
    /\ Idle
    /\ our_uid \in DOMAIN pending => pending[our_uid].vote.num < MaxNum
    /\ \E change \in Changes : Becomes(sign_vote_for(Self, change))
    /\ UNCHANGED <<call, result, faulty, signed, peer>>

PendAddPendingVote ==
    /\ Idle
    /\ \E signed_vote \in PendVotes : Becomes(add_pending_vote(Self, 1, signed_vote))
    /\ UNCHANGED <<call, result, faulty, signed, peer>>

PendAddCommittedVote ==
    /\ Idle
    /\ \E signed_vote \in PendVotes : Becomes(add_committed_vote(Self, 1, signed_vote))
    /\ UNCHANGED <<call, result, faulty, signed, peer>>

PendAddCommittedVotes ==
    /\ Idle
    /\ \E signed_votes \in PendBatches : Becomes(add_committed_votes(Self, 1, signed_votes))
    /\ UNCHANGED <<call, result, faulty, signed, peer>>

NextPend ==
    \/ PendSignVoteFor
    \/ PendAddPendingVote
    \/ PendAddCommittedVote
    \/ PendAddCommittedVotes
    \/ PendingVotes
    \/ ComputeWinner
    \/ Return

SpecPend == Init /\ [][NextPend]_vars

(* ------------------------------------------------------------------ *)
(* What the claims speak of.                                           *)
(* ------------------------------------------------------------------ *)
Range(fn) == {fn[x] : x \in DOMAIN fn}

\* The signature of sv is the claimed voter's, over the bytes of sv's vote, and
\* the claimed voter is a validator the network context knows.
Authentic(sv) ==
    /\ sv.voter \in Validators
    /\ sv.sig = [signer |-> sv.voter, msg |-> <<sv.vote.change, sv.vote.era, sv.vote.num>>]

\* The signed votes passed to the counter by call c.
VotesOf(c) ==
    IF c.op \in {"add_pending_vote", "add_committed_vote"} THEN {c.signed_vote}
    ELSE IF c.op = "add_committed_votes" THEN Range(c.signed_votes)
    ELSE {}

\* The step is the call and return of op.
Calls(op) == call = NoCall /\ call'.op = op

\* m holds a vote of sv's voter that is at least as new as sv.
StaleIn(m, sv, numOf(_)) == sv.voter \in DOMAIN m /\ numOf(m[sv.voter]) >= sv.vote.num

PendingNum(sv) == sv.vote.num

CommittedNum(vote) == vote.num

MapsUnchanged == pending' = pending /\ committed' = committed

\* C5, the state: every stored vote is of the counter's era, is filed under its
\* voter, a validator, and every pending vote carries an authentic signature.
StoredVotesAuthentic ==
    /\ \A v \in DOMAIN pending :
          /\ pending[v].voter = v
          /\ pending[v].vote.era = era
          /\ Authentic(pending[v])
    /\ \A v \in DOMAIN committed :
          /\ v \in Validators
          /\ committed[v].era = era

\* C5, the step: an entry of pending or committed that the step adds or replaces
\* is the vote of an authentic current-era signed vote passed in the call (or, in
\* pending, the vote sign_vote_for has just signed and returned).
StoresOnlyAuthentic ==
    /\ \A v \in DOMAIN committed' :
          (v \notin DOMAIN committed \/ committed[v] # committed'[v]) =>
              /\ call'.op \in {"add_committed_vote", "add_committed_votes"}
              /\ \E sv \in VotesOf(call') :
                    /\ sv.voter = v /\ sv.vote = committed'[v]
                    /\ sv.vote.era = era /\ Authentic(sv)
    /\ \A v \in DOMAIN pending' :
          (v \notin DOMAIN pending \/ pending[v] # pending'[v]) =>
              \/ /\ call'.op = "add_pending_vote"
                 /\ call'.signed_vote = pending'[v]
              \/ /\ call'.op = "sign_vote_for"
                 /\ v = our_uid
                 /\ result' = pending'[v]

\* C5: in every reachable state every vote held in pending or committed has the
\* counter's era and a known validator as voter, and was stored with a signature
\* that verifies against that voter's key; no operation stores any other vote.
C5_StoredVotesValid == [][StoredVotesAuthentic' /\ StoresOnlyAuthentic]_vars

\* C5 witness: add_committed_vote has just stored its vote while pending holds
\* votes too.
C5_Witness ==
    /\ call.op = "add_committed_vote"
    /\ call.signed_vote.voter \in DOMAIN committed
    /\ committed[call.signed_vote.voter] = call.signed_vote.vote
    /\ result = <<>>
    /\ our_uid \in DOMAIN pending

\* C6 as claimed: a vote whose signature does not verify always yields exactly
\* one fault entry, naming the submitting party.
C6_Original ==
    /\ (call.op = "add_pending_vote" /\ ~Authentic(call.signed_vote)) =>
          result = <<[node |-> call.sender_id, kind |-> "InvalidVoteSignature"]>>
    /\ (call.op = "add_committed_vote" /\ ~Authentic(call.signed_vote)) =>
          result = <<[node |-> call.proposer_id, kind |-> "InvalidCommittedVote"]>>

C6_Step ==
    /\ (Calls("add_pending_vote") /\ ~Authentic(call'.signed_vote)) =>
          result' = IF \/ call'.signed_vote.vote.era # era
                       \/ StaleIn(pending, call'.signed_vote, PendingNum)
                    THEN <<>>
                    ELSE <<[node |-> call'.sender_id, kind |-> "InvalidVoteSignature"]>>
    /\ (Calls("add_committed_vote") /\ ~Authentic(call'.signed_vote)) =>
          result' = IF StaleIn(committed, call'.signed_vote, CommittedNum)
                    THEN <<>>
                    ELSE <<[node |-> call'.proposer_id, kind |-> "InvalidCommittedVote"]>>

\* C6 amended: a vote whose signature does not verify yields exactly one fault
\* entry, naming the submitting party (sender, InvalidVoteSignature for pending;
\* proposer, InvalidCommittedVote for committed), unless the vote is obsolete
\* (pending: foreign era, or num <= the voter's pending num; committed: num <=
\* the voter's committed num): then the fault log is empty.
C6_InvalidSignatureFault == [][C6_Step]_vars

\* C6 witness: a forged vote claimed for validator 0 and relayed by node 1 has
\* been answered with one fault entry that names node 1.
C6_Witness ==
    /\ call.op = "add_pending_vote"
    /\ ~Authentic(call.signed_vote)
    /\ call.signed_vote.voter = our_uid
    /\ call.sender_id = 1
    /\ result = <<[node |-> 1, kind |-> "InvalidVoteSignature"]>>

C7_OriginalStep ==
    \A op \in {"add_pending_vote", "add_committed_vote"} :
        (Calls(op) /\ call'.signed_vote.vote.era # era) =>
            /\ MapsUnchanged
            /\ op = "add_pending_vote" => result' = <<>>
            /\ op = "add_committed_vote" =>
                  [node |-> call'.proposer_id, kind |-> "InvalidCommittedVote"]
                      \in Range(result')

\* C7 as claimed: a vote of a foreign era changes neither map; add_pending_vote
\* returns an empty log for it and add_committed_vote a log with an
\* InvalidCommittedVote entry for the proposer.
C7_Original == [][C7_OriginalStep]_vars

C7_Step ==
    \A op \in {"add_pending_vote", "add_committed_vote"} :
        (Calls(op) /\ call'.signed_vote.vote.era # era) =>
            /\ MapsUnchanged
            /\ op = "add_pending_vote" => result' = <<>>
            /\ op = "add_committed_vote" =>
                  result' = IF StaleIn(committed, call'.signed_vote, CommittedNum)
                            THEN <<>>
                            ELSE <<[node |-> call'.proposer_id,
                                    kind |-> "InvalidCommittedVote"]>>

\* C7 amended: a vote of a foreign era, whatever its signature, changes neither
\* map; add_pending_vote returns an empty log for it; add_committed_vote returns
\* the single entry (proposer, InvalidCommittedVote), unless committed holds a
\* vote of that voter with num >= the vote's num: then the log is empty.
C7_ForeignEra == [][C7_Step]_vars

\* C7 witness: an authentic vote of a foreign era was committed by proposer 1,
\* blamed on the proposer and not stored, the voter having no committed vote.
C7_Witness ==
    /\ call.op = "add_committed_vote"
    /\ call.signed_vote.vote.era # era
    /\ Authentic(call.signed_vote)
    /\ call.signed_vote.voter \notin DOMAIN committed
    /\ result = <<[node |-> call.proposer_id, kind |-> "InvalidCommittedVote"]>>

C8_Step ==
    /\ (Calls("add_pending_vote") /\ StaleIn(pending, call'.signed_vote, PendingNum)) =>
          MapsUnchanged /\ result' = <<>>
    /\ (Calls("add_committed_vote")
            /\ StaleIn(committed, call'.signed_vote, CommittedNum)) =>
          MapsUnchanged /\ result' = <<>>

\* C8: a vote whose num is <= the num stored for its voter (in pending for
\* add_pending_vote, in committed for add_committed_vote) changes neither map
\* and returns an empty fault log, even when its signature is invalid.
C8_StaleSilent == [][C8_Step]_vars

\* C8 witness: a forged vote, older than the committed vote of its voter, has
\* been passed to add_committed_vote and answered with an empty log.
C8_Witness ==
    /\ call.op = "add_committed_vote"
    /\ ~Authentic(call.signed_vote)
    /\ call.signed_vote.voter \in DOMAIN committed
    /\ committed[call.signed_vote.voter].num > call.signed_vote.vote.num
    /\ result = <<>>

\* The same call once more, directly after it has returned.
Repeat ==
    IF call.op = "add_pending_vote"
    THEN add_pending_vote(Self, call.sender_id, call.signed_vote)
    ELSE add_committed_vote(Self, call.proposer_id, call.signed_vote)

\* C9 as claimed: the same signed vote a second time changes neither map and
\* returns an empty fault log.
C9_Original ==
    call.op \in {"add_pending_vote", "add_committed_vote"} =>
        /\ Repeat.self.pending = pending
        /\ Repeat.self.committed = committed
        /\ Repeat.ret = <<>>

\* C9 amended: the same signed vote a second time changes neither map and
\* returns the fault log of the first call again: empty when the first call
\* stored the vote or found it obsolete, the same single fault entry when the
\* first call found the vote invalid.
C9_Idempotent ==
    call.op \in {"add_pending_vote", "add_committed_vote"} =>
        /\ Repeat.self.pending = pending
        /\ Repeat.self.committed = committed
        /\ Repeat.ret = result
        /\ Len(result) <= 1
        /\ (result # <<>>) =>
              ~(Authentic(call.signed_vote) /\ call.signed_vote.vote.era = era)

\* C9 witness: add_pending_vote has just stored the vote it was given.
C9_Witness ==
    /\ call.op = "add_pending_vote"
    /\ call.signed_vote.voter \in DOMAIN pending
    /\ pending[call.signed_vote.voter] = call.signed_vote
    /\ call.signed_vote.vote.num = 0
    /\ result = <<>>

C10_Step ==
    /\ \A v \in DOMAIN pending :
          v \in DOMAIN pending' /\ pending'[v].vote.num >= pending[v].vote.num
    /\ \A v \in DOMAIN committed :
          v \in DOMAIN committed' /\ committed'[v].num >= committed[v].num

\* C10: in every step no voter is removed from pending or from committed, and no
\* voter's pending num and no voter's committed num decreases.
C10_NumMonotonic == [][C10_Step]_vars

\* C10 witness: sign_vote_for has replaced the local pending vote by one with a
\* higher num while some voter's committed vote has a num above zero.
C10_Witness ==
    /\ call.op = "sign_vote_for"
    /\ result.vote.num >= 1
    /\ pending[our_uid] = result
    /\ \E v \in DOMAIN committed : committed[v].num >= 1

(* ------------------------------------------------------------------ *)
(* The tally claims, checked under SpecTally.                          *)
(* ------------------------------------------------------------------ *)
\* The tolerated number of faulty validators of the tests' network.
f == (node_num - 1) \div 3

\* The voters whose committed vote is for change c.
VotersFor(c) == {v \in DOMAIN committed : committed[v].change = c}

\* The changes with strictly more than f matching committed votes.
Ratified == {c \in Changes : Cardinality(VotersFor(c)) > f}

\* C1 as claimed: for every change c, compute_winner() returns Some(c) if and
\* only if strictly more than f voters have a committed vote for c.
C1_Original ==
    \A c \in Changes : (compute_winner(Self) = Some(c)) <=> (c \in Ratified)

\* C1 amended: compute_winner() returns Some(c) only if strictly more than f
\* voters have a committed vote for c; it returns None if and only if no change
\* has more than f such voters; when several changes have, it returns one of
\* them only.
C1_WinnerThreshold ==
    /\ \A c \in Changes : (compute_winner(Self) = Some(c)) => (c \in Ratified)
    /\ (compute_winner(Self) = None) <=> (Ratified = {})
    /\ compute_winner(Self) \in {None} \cup {Some(c) : c \in Changes}
    /\ call.op = "compute_winner" => result = compute_winner(Self)

\* C1 witness: compute_winner has returned a change while two changes have more
\* than f committed votes each.
C1_Witness ==
    /\ call.op = "compute_winner"
    /\ \E c \in Ratified : result = Some(c)
    /\ Cardinality(Ratified) = 2

\* C3 as claimed: at most one change has strictly more than f matching votes in
\* committed at the same time.
C3_Original == Cardinality(Ratified) <= 1

\* C3 amended: every committed voter is a validator and counts for one change
\* only, so the changes with more than f matching committed votes are backed by
\* disjoint sets of f + 1 validators: there are at most n / (f + 1) of them (two
\* for n = 4, f = 1), not at most one.
C3_DisjointQuorums ==
    /\ DOMAIN committed \subseteq Validators
    /\ \A c, d \in Ratified : c # d => VotersFor(c) \cap VotersFor(d) = {}
    /\ Cardinality(Ratified) * (f + 1) <= Cardinality(DOMAIN committed)
    /\ Cardinality(Ratified) <= node_num \div (f + 1)

\* C3 witness: two changes have f + 1 committed votes each, all four validators
\* having committed a vote.
C3_Witness ==
    /\ Cardinality(Ratified) = 2
    /\ DOMAIN committed = Validators
    /\ call.op = "add_committed_vote"

(* ------------------------------------------------------------------ *)
(* The safety claim, checked under SpecByz.                            *)
(* ------------------------------------------------------------------ *)
\* Some honest validator has signed a vote of the counter's era for change c.
HonestlySigned(c) ==
    \E sv \in signed : sv.voter \in Honest /\ sv.vote.era = era /\ sv.vote.change = c

\* C2: whenever compute_winner() returns Some(c), an honest voter has signed a
\* current-era vote for c; while no honest voter has signed any current-era
\* vote, compute_winner() returns None.
C2_HonestVoterBehindWinner ==
    /\ \A c \in Changes : compute_winner(Self) = Some(c) => HonestlySigned(c)
    /\ (\A c \in Changes : ~HonestlySigned(c)) => compute_winner(Self) = None

\* C2 witness: a change wins with f + 1 committed votes, one of them the vote of
\* a faulty validator, while the other change has no honest signature and the
\* local node has signed a vote.
C2_Witness ==
    \E c \in Changes :
        /\ compute_winner(Self) = Some(c)
        /\ Cardinality(VotersFor(c)) = f + 1
        /\ VotersFor(c) \cap faulty # {}
        /\ \E d \in Changes : ~HonestlySigned(d)
        /\ our_uid \in DOMAIN pending

(* ------------------------------------------------------------------ *)
(* The determinism claim, checked under SpecTwo.                       *)
(* ------------------------------------------------------------------ *)
\* C4: two counters of the same era and validator keys, with different local
\* node ids, that were given the same committed votes have equal committed maps
\* and equal compute_winner() results, whatever pending votes and local votes
\* either has and whatever proposers the votes came from.
C4_SameCommittedSameWinner ==
    /\ peer.netinfo.our_uid # our_uid
    /\ peer.era = era
    /\ peer.committed = committed
    /\ compute_winner(peer) = compute_winner(Self)

\* C4 witness: both counters report the same winning change while their pending
\* maps differ: each holds its own local vote and not the other's.
C4_Witness ==
    /\ \E c \in Changes : compute_winner(Self) = Some(c) /\ compute_winner(peer) = Some(c)
    /\ DOMAIN pending = {our_uid}
    /\ peer_uid \in DOMAIN peer.pending
    /\ pending[our_uid].vote.num > committed[our_uid].num

(* ------------------------------------------------------------------ *)
(* The stability of the tally, checked under SpecTally.                *)
(* ------------------------------------------------------------------ *)
\* C11 as claimed: once compute_winner() is Some(c) it is Some(c) after every
\* later step.
C11_Original ==
    [][\A c \in Changes :
          compute_winner(Self) = Some(c) =>
              compute_winner([Self EXCEPT !.committed = committed']) = Some(c)]_vars

\* In the step a voter of c has replaced its committed vote by a newer vote for
\* another change.
Revoked(c) ==
    \E v \in VotersFor(c) :
        committed'[v].change # c /\ committed'[v].num > committed[v].num

\* In the step a voter has committed its first vote, for d, or has replaced its
\* committed vote for another change by a newer vote for d.
Joined(d) ==
    \E v \in DOMAIN committed' :
        /\ committed'[v].change = d
        /\ \/ v \notin DOMAIN committed
           \/ committed[v].change # d /\ committed'[v].num > committed[v].num

C11_Step ==
    LET before == compute_winner(Self)
        after == compute_winner([Self EXCEPT !.committed = committed'])
    IN /\ DOMAIN committed \subseteq DOMAIN committed'
       /\ committed' = committed => after = before
       /\ \A c \in Changes :
             before = Some(c) =>
                 \/ after = Some(c)
                 \/ after = None /\ Revoked(c)
                 \/ \E d \in Changes \ {c} :
                       after = Some(d) /\ (Revoked(c) \/ Joined(d))

\* C11 amended: no voter ever leaves committed and compute_winner() keeps its
\* value while committed is unchanged; after it was Some(c) it becomes None only
\* in a step in which a voter of c commits a vote with a higher num for another
\* change, and it becomes Some(d), d # c, only in a step in which a voter of c
\* does so or a voter commits a first or a newer vote for d.
C11_WinnerStability == [][C11_Step]_vars

\* C11 witness: compute_winner() has returned Some(c), and a vote with a higher
\* num of one of c's voters, once committed, makes it return None.
C11_Witness ==
    /\ call.op = "compute_winner"
    /\ \E c \in Changes :
          /\ result = Some(c)
          /\ \E sv \in TallyVotes :
                /\ sv.voter \in VotersFor(c)
                /\ compute_winner(add_committed_vote(Self, 1, sv).self) = None

(* ------------------------------------------------------------------ *)
(* The order of the calls, checked under Spec. Two orders of the same  *)
(* calls differ by exchanges of neighbouring calls, so the final maps  *)
(* are independent of the order exactly when any two calls, made one   *)
(* after the other in a reachable state, can be exchanged.             *)
(* ------------------------------------------------------------------ *)
\* The votes of the calls exchanged with the call of a step: any vote of a
\* relayed voter, signed by that voter or by validator 1 in the voter's name.
OrderVotes ==
    {sv \in SignedVotes :
        sv.sig.msg = serialize(sv.vote) /\ sv.sig.signer \in {sv.voter, 1}}

\* The calls exchanged with the call of a step.
OrderCalls ==
    [op : {"add_pending_vote"}, sender_id : {1}, signed_vote : OrderVotes]
        \cup [op : {"add_committed_vote"}, proposer_id : {1}, signed_vote : OrderVotes]

\* The counter after call c.
Apply(c, self) ==
    IF c.op = "add_pending_vote"
    THEN add_pending_vote(self, c.sender_id, c.signed_vote).self
    ELSE add_committed_vote(self, c.proposer_id, c.signed_vote).self

\* The counter after the step.
SelfAfter == [Self EXCEPT !.pending = pending', !.committed = committed']

\* The step's call a and call b, made in either order, leave the same maps.
Exchangeable(b) ==
    LET ba == Apply(call', Apply(b, Self))
        ab == Apply(b, SelfAfter)
    IN ab.pending = ba.pending /\ ab.committed = ba.committed

\* C12 as claimed: the calls of a fixed multiset of add_pending_vote and
\* add_committed_vote calls leave the same pending and committed maps in any
\* order: the call of a step and any other call can be exchanged.
C12_Original ==
    [][\A op \in {"add_pending_vote", "add_committed_vote"} :
          Calls(op) => \A b \in OrderCalls : Exchangeable(b)]_vars

\* Calls a and b pass two different validly signed current-era votes of one
\* voter with the same num to the same operation.
Conflicting(a, b) ==
    /\ a.op = b.op
    /\ a.signed_vote # b.signed_vote
    /\ a.signed_vote.voter = b.signed_vote.voter
    /\ a.signed_vote.vote.num = b.signed_vote.vote.num
    /\ a.signed_vote.vote.era = era /\ b.signed_vote.vote.era = era
    /\ Authentic(a.signed_vote) /\ Authentic(b.signed_vote)

\* The vote stored for the voter of call c in the map c's operation writes.
StoredFor(c, self) ==
    IF c.op = "add_pending_vote"
    THEN self.pending[c.signed_vote.voter].vote
    ELSE self.committed[c.signed_vote.voter]

C12_Step ==
    \A op \in {"add_pending_vote", "add_committed_vote"} :
        Calls(op) =>
            \A b \in OrderCalls :
                /\ ~Conflicting(call', b) => Exchangeable(b)
                /\ (Conflicting(call', b) /\ Apply(b, Self) # Self) =>
                      /\ StoredFor(b, Apply(b, SelfAfter)) = call'.signed_vote.vote
                      /\ StoredFor(b, Apply(call', Apply(b, Self))) = b.signed_vote.vote

\* C12 amended: the final pending and committed maps are independent of the
\* order of the calls provided no two calls pass different validly signed
\* current-era votes of one voter with the same num to the same operation; of
\* two such votes, neither obsolete, the one passed first stays stored.
C12_OrderIndependent == [][C12_Step]_vars

\* C12 witness: two different validly signed votes of the local node have been
\* passed: the newer one has just been stored in pending, the older one is the
\* committed vote.
C12_Witness ==
    /\ call.op = "add_pending_vote"
    /\ Authentic(call.signed_vote)
    /\ call.signed_vote.voter = our_uid
    /\ call.signed_vote.vote.num = 1
    /\ our_uid \in DOMAIN pending /\ pending[our_uid] = call.signed_vote
    /\ our_uid \in DOMAIN committed
    /\ committed[our_uid].num = 0
    /\ committed[our_uid].change # call.signed_vote.vote.change

(* ------------------------------------------------------------------ *)
(* The surfaced pending votes, checked under SpecPend.                 *)
(* ------------------------------------------------------------------ *)
\* The voters whose pending vote is newer than their committed vote, if any.
Uncommitted ==
    {v \in DOMAIN pending : v \notin DOMAIN committed \/ committed[v].num < pending[v].vote.num}

\* C13: pending_votes() yields the entries pending[v] of exactly the voters v
\* that have no committed vote or a committed vote with a lower num, each
\* once and in ascending order of v, and nothing else.
C13_PendingVotesExact ==
    LET yielded == pending_votes(Self)
    IN /\ \A i \in 1 .. Len(yielded) :
             /\ yielded[i].voter \in Uncommitted
             /\ yielded[i] = pending[yielded[i].voter]
       /\ \A v \in Uncommitted : \E i \in 1 .. Len(yielded) : yielded[i] = pending[v]
       /\ \A i, j \in 1 .. Len(yielded) : i < j => yielded[i].voter < yielded[j].voter
       /\ call.op = "pending_votes" => result = yielded

\* C13 witness: pending_votes() has returned the votes of validators 0 and 2 and
\* left out the pending vote of validator 1, which is as old as the committed one.
C13_Witness ==
    /\ call.op = "pending_votes"
    /\ DOMAIN pending = PendVoters
    /\ Len(result) = 2
    /\ result[1].voter = 0 /\ result[2].voter = 2
    /\ 1 \in DOMAIN committed /\ committed[1].num = pending[1].vote.num
    /\ 2 \in DOMAIN committed /\ committed[2].num < pending[2].vote.num

\* The calls that commit votes: a single vote or a batch, proposed by node 1.
CommitCalls ==
    [op : {"add_committed_vote"}, proposer_id : {1}, signed_vote : PendVotes]
        \cup [op : {"add_committed_votes"}, proposer_id : {1}, signed_votes : PendBatches]

\* The votes of call c, in the order the call processes them.
VotesSeq(c) == IF c.op = "add_committed_vote" THEN <<c.signed_vote>> ELSE c.signed_votes

\* The counter after call c.
Commit(c, self) ==
    IF c.op = "add_committed_vote"
    THEN add_committed_vote(self, c.proposer_id, c.signed_vote).self
    ELSE add_committed_votes(self, c.proposer_id, c.signed_votes).self

\* The counter when call c comes to its i-th vote.
AtTurn(c, i, self) == add_committed_votes(self, c.proposer_id, SubSeq(VotesSeq(c), 1, i - 1)).self

\* Call c commits (stores in committed) its i-th vote.
CommitsAt(c, i, self) ==
    add_committed_vote(AtTurn(c, i, self), c.proposer_id, VotesSeq(c)[i]).self
        # AtTurn(c, i, self)

\* The pending vote of v is among the votes pending_votes() yields on self.
Surfaced(v, self) ==
    \E i \in 1 .. Len(pending_votes(self)) : pending_votes(self)[i] = self.pending[v]

\* C14 as claimed: after a call that commits a vote with num k of voter v,
\* pending_votes() leaves out the pending vote of v if its num is <= k and
\* yields it if its num is > k.
C14_Original ==
    \A c \in CommitCalls :
        \A i \in 1 .. Len(VotesSeq(c)) :
            LET v == VotesSeq(c)[i].voter
                k == VotesSeq(c)[i].vote.num
                after == Commit(c, Self)
            IN (CommitsAt(c, i, Self) /\ v \in DOMAIN pending) =>
                  /\ after.pending = pending
                  /\ pending[v].vote.num <= k => ~Surfaced(v, after)
                  /\ pending[v].vote.num > k => Surfaced(v, after)

\* C14 amended: after a call add_committed_vote(s) that stores a vote of voter
\* v, k being the num of v's committed vote when the call returns (the highest
\* num of v the call commits), pending_votes() leaves out the pending vote of v
\* if its num is <= k and yields it if its num is > k; the call leaves the
\* pending map as it was.
C14_CommittedHidesPending ==
    Idle =>
        \A c \in CommitCalls :
            LET after == Commit(c, Self)
                yielded == Range(pending_votes(after))
            IN /\ after.pending = pending
               /\ \A v \in DOMAIN after.committed \cap DOMAIN pending :
                     (v \notin DOMAIN committed \/ committed[v] # after.committed[v]) =>
                         /\ \E i \in 1 .. Len(VotesSeq(c)) :
                               /\ VotesSeq(c)[i].voter = v
                               /\ VotesSeq(c)[i].vote = after.committed[v]
                               /\ CommitsAt(c, i, Self)
                         /\ pending[v].vote.num <= after.committed[v].num =>
                               pending[v] \notin yielded
                         /\ pending[v].vote.num > after.committed[v].num =>
                               pending[v] \in yielded

\* C14 witness: pending_votes() yields the pending vote of validator 1, of num
\* 1, and a batch that commits the votes of validator 1 with num 0 and num 1
\* removes it from the yielded votes.
C14_Witness ==
    /\ 1 \in DOMAIN pending /\ pending[1].vote.num = 1
    /\ Surfaced(1, Self)
    /\ \E c \in CommitCalls :
          /\ c.op = "add_committed_votes" /\ Len(c.signed_votes) = 2
          /\ c.signed_votes[1].voter = 1 /\ c.signed_votes[1].vote.num = 0
          /\ c.signed_votes[2] = pending[1]
          /\ CommitsAt(c, 1, Self) /\ CommitsAt(c, 2, Self)
          /\ ~Surfaced(1, Commit(c, Self))

(* ------------------------------------------------------------------ *)
(* The batch and its votes one by one, checked under Spec.             *)
(* ------------------------------------------------------------------ *)
\* add_committed_vote called for each vote of votes in order: the calls for all
\* votes but the last, then the call for the last.
RECURSIVE OneByOne(_, _, _)
OneByOne(self, proposer_id, votes) ==
    IF votes = <<>> THEN [self |-> self, ret |-> <<>>]
    ELSE LET before == OneByOne(self, proposer_id, SubSeq(votes, 1, Len(votes) - 1))
             last == add_committed_vote(before.self, proposer_id, votes[Len(votes)])
         IN [self |-> last.self, ret |-> before.ret \o last.ret]

C15_Step ==
    Calls("add_committed_votes") =>
        LET single == OneByOne(Self, call'.proposer_id, call'.signed_votes)
        IN /\ pending' = single.self.pending
           /\ committed' = single.self.committed
           /\ era' = single.self.era
           /\ result' = single.ret
           /\ \A i \in 1 .. Len(call'.signed_votes) :
                 LET sv == call'.signed_votes[i]
                 IN (Authentic(sv) /\ sv.vote.era = era) =>
                        /\ sv.voter \in DOMAIN committed'
                        /\ committed'[sv.voter].num >= sv.vote.num

\* C15: add_committed_votes(proposer, votes) leaves the maps that the calls
\* add_committed_vote(proposer, vote), made for the votes in order, leave, and
\* returns their fault logs concatenated in order; every valid vote of the
\* batch is processed and stored (or is older than the stored one), also after
\* a vote that produced a fault.
C15_BatchIsSequence == [][C15_Step]_vars

\* C15 witness: a batch of two votes has returned one fault, for its first
\* vote, and its second vote is stored in committed.
C15_Witness ==
    /\ call.op = "add_committed_votes"
    /\ Len(call.signed_votes) = 2
    /\ ~Authentic(call.signed_votes[1])
    /\ result = <<[node |-> call.proposer_id, kind |-> "InvalidCommittedVote"]>>
    /\ call.signed_votes[2].voter \in DOMAIN committed
    /\ committed[call.signed_votes[2].voter] = call.signed_votes[2].vote

(* ------------------------------------------------------------------ *)
(* The highest num seen, checked under Spec. Both maps are empty at    *)
(* first, so a map holds for every voter the highest num seen exactly  *)
(* when every call leaves for every voter the higher of the stored num *)
(* and the nums of the valid votes it passes.                          *)
(* ------------------------------------------------------------------ *)
\* The nums of the validly signed current-era votes of v among votes.
ValidNums(votes, v) ==
    {sv.vote.num : sv \in {x \in votes : x.voter = v /\ x.vote.era = era /\ Authentic(x)}}

Highest(S) == CHOOSE n \in S : \A other \in S : other <= n

\* Map after holds for every voter the highest of the num it held in before
\* and of the nums the step has seen of that voter, and no other voter.
HoldsHighest(before, after, votes, numOf(_)) ==
    \A v \in NodeUids :
        LET seen == ValidNums(votes, v)
                        \cup (IF v \in DOMAIN before THEN {numOf(before[v])} ELSE {})
        IN /\ v \in DOMAIN after <=> seen # {}
           /\ v \in DOMAIN after => numOf(after[v]) = Highest(seen)

C16_Step ==
    /\ Calls("sign_vote_for") =>
          /\ HoldsHighest(pending, pending', {result'}, PendingNum)
          /\ result'.voter = our_uid /\ Authentic(result') /\ result'.vote.era = era
          /\ our_uid \in DOMAIN pending => result'.vote.num > pending[our_uid].vote.num
          /\ HoldsHighest(committed, committed', {}, CommittedNum)
    /\ Calls("add_pending_vote") =>
          /\ HoldsHighest(pending, pending', VotesOf(call'), PendingNum)
          /\ HoldsHighest(committed, committed', {}, CommittedNum)
    /\ (Calls("add_committed_vote") \/ Calls("add_committed_votes")) =>
          /\ HoldsHighest(committed, committed', VotesOf(call'), CommittedNum)
          /\ HoldsHighest(pending, pending', {}, PendingNum)
    /\ (Calls("pending_votes") \/ Calls("compute_winner") \/ ~Idle) =>
          /\ HoldsHighest(pending, pending', {}, PendingNum)
          /\ HoldsHighest(committed, committed', {}, CommittedNum)

\* C16: pending[v] exists iff a validly signed current-era vote of v has been
\* passed to add_pending_vote or created by sign_vote_for, and its num is the
\* highest among those votes; committed[v] exists iff such a vote has been
\* passed to add_committed_vote(s), and its num is the highest among those.
C16_HighestNumSeen == [][C16_Step]_vars

\* C16 witness: a valid vote of the local node with num 0 has been passed to
\* add_pending_vote after the one with num 1: pending keeps num 1, while
\* committed holds a vote of the local node too.
C16_Witness ==
    /\ call.op = "add_pending_vote"
    /\ Authentic(call.signed_vote) /\ call.signed_vote.vote.era = era
    /\ call.signed_vote.voter = our_uid
    /\ call.signed_vote.vote.num = 0
    /\ pending[our_uid].vote.num = 1
    /\ our_uid \in DOMAIN committed
    /\ result = <<>>

(* ------------------------------------------------------------------ *)
(* The votes of the local node, checked under SpecByz: signed holds    *)
(* the votes sign_vote_for has created, and a valid signature of the   *)
(* local node exists on these votes only.                              *)
(* ------------------------------------------------------------------ *)
\* The votes the counter has signed so far.
LocallySigned == {sv \in signed : sv.voter = our_uid}

\* The votes sign_vote_for creates in the step.
NewlySigned == {sv \in signed' \ signed : sv.voter = our_uid}

C17_Step ==
    /\ (our_uid \in DOMAIN pending'
            /\ (our_uid \notin DOMAIN pending \/ pending'[our_uid] # pending[our_uid])) =>
          NewlySigned = {pending'[our_uid]}
    /\ \A sv \in NewlySigned :
            /\ sv.vote.era = era
            /\ sv.vote.num = IF our_uid \in DOMAIN pending
                             THEN pending[our_uid].vote.num + 1 ELSE 0
            /\ Authentic(sv)
            /\ DOMAIN pending' = DOMAIN pending \cup {our_uid}
            /\ pending'[our_uid] = sv
            /\ \A v \in DOMAIN pending \ {our_uid} : pending'[v] = pending[v]
            /\ committed' = committed
            /\ \A earlier \in LocallySigned : earlier.vote.num < sv.vote.num

\* C17: sign_vote_for creates a vote of the counter's era with num 0 if pending
\* has no entry of the local node and pending[local].num + 1 otherwise, and
\* stores it as pending[local]; whatever add_pending_vote and
\* add_committed_vote(s) calls come in between, its num is strictly greater
\* than the num of every vote the counter has signed before.
C17_SignedNumsIncrease == [][C17_Step]_vars

\* C17 witness: the counter has signed two votes, with num 0 and num 1, for
\* different changes; the second is pending and the first is committed.
C17_Witness ==
    /\ \E a, b \in LocallySigned :
          /\ a.vote.num = 0 /\ b.vote.num = 1 /\ a.vote.change # b.vote.change
          /\ our_uid \in DOMAIN pending /\ pending[our_uid] = b
          /\ our_uid \in DOMAIN committed /\ committed[our_uid] = a.vote

C20_Step ==
    \A sv \in NewlySigned :
        \E i \in 1 .. Len(pending_votes(SelfAfter)) : pending_votes(SelfAfter)[i] = sv

\* C20: while every valid signature of the local node comes from sign_vote_for
\* of this counter, a committed vote of the local node is never newer than its
\* pending vote, and pending_votes() called after sign_vote_for yields the vote
\* just signed.
C20_FreshVoteSurfaced ==
    /\ [](our_uid \in DOMAIN committed =>
              /\ our_uid \in DOMAIN pending
              /\ committed[our_uid].num <= pending[our_uid].vote.num)
    /\ [][C20_Step]_vars

\* C20 witness: the local node's pending vote has been committed, so that it is
\* no longer among the votes pending_votes() yields, and the node can sign again.
C20_Witness ==
    /\ our_uid \in DOMAIN committed /\ our_uid \in DOMAIN pending
    /\ committed[our_uid] = pending[our_uid].vote
    /\ pending[our_uid].vote.num < MaxNum
    /\ \A i \in 1 .. Len(pending_votes(Self)) : pending_votes(Self)[i].voter # our_uid
    /\ faulty # {}

(* ------------------------------------------------------------------ *)
(* Which change wins, checked under SpecTally.                         *)
(* ------------------------------------------------------------------ *)
\* The voter at which the count of c exceeds f when committed is scanned in
\* ascending voter order: the voter of c with f voters of c below it.
CrossesAt(c) ==
    CHOOSE v \in VotersFor(c) : Cardinality({u \in VotersFor(c) : u < v}) = f

\* C18: compute_winner() returns Some(c) only for a change c with more than f
\* committed votes, and None if and only if there is no such change; of
\* several such changes it returns the one whose count exceeds f first when
\* committed is scanned in ascending voter-id order.
C18_FirstToExceed ==
    LET winner == compute_winner(Self)
    IN /\ winner = None <=> Ratified = {}
       /\ Ratified # {} =>
             \E c \in Ratified :
                 /\ winner = Some(c)
                 /\ Cardinality(VotersFor(c)) > f
                 /\ \A d \in Ratified : CrossesAt(c) <= CrossesAt(d)
       /\ call.op = "compute_winner" => result = winner

\* C18 witness: two changes have more than f votes; compute_winner() has
\* returned the one voted by validators 1 and 2, not the one voted by
\* validators 0 and 3.
C18_Witness ==
    /\ call.op = "compute_winner"
    /\ DOMAIN committed = Validators
    /\ \E c, d \in Changes :
          /\ c # d
          /\ VotersFor(c) = {0, 3} /\ VotersFor(d) = {1, 2}
          /\ result = Some(d)

(* ------------------------------------------------------------------ *)
(* What each operation leaves alone, checked under SpecPend.           *)
(* ------------------------------------------------------------------ *)
\* The voters whose entry differs between the maps before and after.
ChangedKeys(before, after) ==
    {v \in DOMAIN before \cup DOMAIN after :
        v \notin DOMAIN before \/ v \notin DOMAIN after \/ before[v] # after[v]}

\* The call that made self into after changed no more than the entries of
\* voters in the pending map and no entry of the committed map.
WritesPendingOf(voters, self, after) ==
    /\ after.era = self.era
    /\ after.netinfo = self.netinfo
    /\ after.committed = self.committed
    /\ compute_winner(after) = compute_winner(self)
    /\ ChangedKeys(self.pending, after.pending) \subseteq voters

WritesCommittedOf(voters, self, after) ==
    /\ after.era = self.era
    /\ after.netinfo = self.netinfo
    /\ after.pending = self.pending
    /\ ChangedKeys(self.committed, after.committed) \subseteq voters

\* The frame of sign_vote_for, add_pending_vote and add_committed_vote, for
\* every argument, in the counter's present state.
SingleVoteFrame ==
    /\ \A change \in Changes :
          WritesPendingOf({our_uid}, Self, sign_vote_for(Self, change).self)
    /\ \A sv \in PendVotes :
          /\ WritesPendingOf({sv.voter}, Self, add_pending_vote(Self, 1, sv).self)
          /\ WritesCommittedOf({sv.voter}, Self, add_committed_vote(Self, 1, sv).self)

\* In a step the era stays, and pending_votes() and compute_winner() change
\* neither map.
ReadOnlyStep ==
    /\ era' = era
    /\ (Calls("pending_votes") \/ Calls("compute_winner")) => MapsUnchanged

\* C19 as claimed: every operation, add_committed_votes too, changes at most
\* one entry of one map.
C19_Original ==
    Idle =>
        /\ SingleVoteFrame
        /\ \A batch \in PendBatches :
              LET after == add_committed_votes(Self, 1, batch).self
              IN /\ WritesCommittedOf({sv.voter : sv \in Range(batch)}, Self, after)
                 /\ Cardinality(ChangedKeys(committed, after.committed)) <= 1

\* The frame of every operation but the count of entries a batch changes.
C19_State ==
    Idle =>
        /\ SingleVoteFrame
        /\ \A batch \in PendBatches :
              LET after == add_committed_votes(Self, 1, batch).self
              IN /\ WritesCommittedOf({sv.voter : sv \in Range(batch)}, Self, after)
                 /\ Cardinality(ChangedKeys(committed, after.committed)) <= Len(batch)

\* C19 amended: the era never changes; add_pending_vote and sign_vote_for
\* leave committed and the result of compute_winner() unchanged and change at
\* most the pending entry of the vote's voter; add_committed_vote leaves
\* pending unchanged and changes at most the committed entry of the vote's
\* voter; add_committed_votes leaves pending unchanged and changes at most one
\* committed entry for each vote of the batch, that of the vote's voter;
\* pending_votes() and compute_winner() change no state.
C19_Frame == []C19_State /\ [][ReadOnlyStep]_vars

\* C19 witness: validators 1 and 2 have pending votes and no committed vote,
\* and a batch with a vote of each changes two entries of committed.
C19_Witness ==
    /\ Idle
    /\ {1, 2} \subseteq DOMAIN pending
    /\ committed = <<>>
    /\ \E batch \in PendBatches :
          Cardinality(ChangedKeys(committed, add_committed_votes(Self, 1, batch).self.committed)) = 2

====
